---------------------------- MODULE Spec2Model ----------------------------
(***************************************************************************)
(* A model of the DailyNews repository: the feed strategy                  *)
(* (daily_news_bot.py) and the agent strategy (fetch_cyber_news.py).       *)
(*                                                                         *)
(* The two scripts are batch jobs; each is modelled step by step.  The     *)
(* module holds several specifications over one set of variables:          *)
(*   Spec        fetch_articles_from_feeds (feed loop, filter, sort)       *)
(*   SpecRender  generate_markdown_content                                 *)
(*   SpecIndex   update_readme of both scripts, a sequence of calls        *)
(*   SpecRun     fetch_cyber_news.main with git_commit_and_push, one run   *)
(*   SpecFeed    daily_news_bot.main, one run                              *)
(*   SpecDigest  the digest files written by a sequence of runs            *)
(* Variables that a specification does not use keep their initial value.   *)
(***************************************************************************)
EXTENDS Integers, Sequences, FiniteSets, TLC

(***************************************************************************)
(* Bounds of the model.                                                    *)
(***************************************************************************)
\* timestamps are 0..MaxTime (one unit is an arbitrary span of time)
MaxTime == 3
\* the feeds of RSS_FEEDS that are modelled, in dictionary order
NumFeeds == 2
\* the entries one run iterates over, all feeds together
MaxEntries == 3
\* the articles one call of generate_markdown_content renders
MaxArticles == 3
\* the lines of the README.md a sequence of runs starts from
MaxReadmeLines == 3
\* the calls of update_readme in a sequence of runs
MaxUpdates == 3
\* the distinct digests (dates, or minutes) the runs name
MaxLinks == 3

Times == 0..MaxTime
\* an optional timestamp: << >> is Python's None, <<t>> the parsed time t
None == << >>
OptTimes == {None} \cup {<<t>> : t \in Times}

VARIABLES
    \* ---- daily_news_bot.fetch_articles_from_feeds
    fpc,            \* "loop" | "returned"
    cutoff_time,    \* the argument cutoff_time
    feedIdx,        \* position of the for loop over RSS_FEEDS.items()
    inFeed,         \* TRUE while the inner loop over feed.entries runs
    seen,           \* the entries the inner loop has processed, in fetch order
    failed,         \* the feeds whose try block raised
    articles        \* the list `articles`

VARIABLES
    \* ---- daily_news_bot.generate_markdown_content
    rpc,            \* "call" | "returned"
    rArticles,      \* the argument `articles`
    rContent        \* the returned string, as its lines

VARIABLES
    \* ---- update_readme of both scripts, called run after run
    strategy,       \* "agent" (fetch_cyber_news.py) | "feed" (daily_news_bot.py)
    readme,         \* README.md: [exists, text]
    hist            \* the calls made so far: [k, ret, wrote, before, after]

VARIABLES
    \* ---- fetch_cyber_news.main and git_commit_and_push, one run
    ppc,            \* the position of the run
    git,            \* the repository: head, wt, idx, tips, github, cur
    obs             \* what the run has done so far (for the claims)

VARIABLES
    \* ---- the clock and the digest files, over a sequence of runs
    weekday,        \* datetime.now().weekday() of the run: 0 is Monday
    clock,          \* datetime.now(): [date, minute]
    digests,        \* the digest files: file name -> content (NoFile if none)
    writes          \* the writes made so far: [name, before, after]

fetchVars == <<fpc, cutoff_time, feedIdx, inFeed, seen, failed, articles>>
renderVars == <<rpc, rArticles, rContent>>
indexVars == <<strategy, readme, hist>>
runVars == <<ppc, git, obs>>
diskVars == <<weekday, clock, digests, writes>>

vars == <<fetchVars, renderVars, indexVars, runVars, diskVars>>
notFetch == <<renderVars, indexVars, runVars, diskVars>>
notRender == <<fetchVars, indexVars, runVars, diskVars>>
notIndex == <<fetchVars, renderVars, runVars, diskVars>>
notRun == <<fetchVars, renderVars, diskVars>>

(***************************************************************************)
(* Sequence helpers.                                                       *)
(***************************************************************************)
\* list[::-1] / the reverse_slice of list.sort(reverse=True)
Reverse(s) == [i \in 1..Len(s) |-> s[Len(s) + 1 - i]]

(***************************************************************************)
(* daily_news_bot.fetch_articles_from_feeds                                *)
(***************************************************************************)
\* a feed entry: published_parsed and updated_parsed, each a time or None
Entries == [published_parsed : OptTimes, updated_parsed : OptTimes]

PublishedTimeUpdatedFirst(entry) ==
    IF entry.updated_parsed # None THEN entry.updated_parsed
    ELSE IF entry.published_parsed # None THEN entry.published_parsed
    ELSE None

\* lines 44-48: published_parsed if present and truthy, else updated_parsed
PublishedTime(entry) ==
    IF entry.published_parsed # None THEN entry.published_parsed
    ELSE IF entry.updated_parsed # None THEN entry.updated_parsed
    ELSE None

KeepsStrictlyNewer(published_time, cutoff) ==
    published_time # None /\ published_time[1] > cutoff

\* line 51: if published_time and published_time >= cutoff_time
Keeps(published_time, cutoff) ==
    published_time # None /\ published_time[1] >= cutoff

\* the stable ascending insertion of x into the sorted list s (after its equals)
RECURSIVE InsertAsc(_, _)
InsertAsc(x, s) ==
    IF s = << >> THEN <<x>>
    ELSE IF x.published < Head(s).published THEN <<x>> \o s
    ELSE <<Head(s)>> \o InsertAsc(x, Tail(s))

\* a stable ascending sort by the key x['published']
RECURSIVE SortAsc(_)
SortAsc(s) ==
    IF s = << >> THEN << >>
    ELSE InsertAsc(s[Len(s)], SortAsc(SubSeq(s, 1, Len(s) - 1)))

SortNewestFirstNoPreReverse(s) == Reverse(SortAsc(s))

\* line 66: articles.sort(key=..., reverse=True); CPython reverses the list,
\* sorts it stably in ascending order and reverses the result
SortNewestFirst(s) == Reverse(SortAsc(Reverse(s)))

\* line 40: feedparser.parse(feed_url) returns, or raises (line 61)
ParseFeed ==
    /\ fpc = "loop" /\ feedIdx <= NumFeeds /\ ~inFeed
    /\ \/ /\ inFeed' = TRUE
          /\ UNCHANGED <<feedIdx, failed>>
       \/ /\ failed' = failed \cup {feedIdx}
          /\ feedIdx' = feedIdx + 1
          /\ UNCHANGED inFeed
    /\ UNCHANGED <<fpc, cutoff_time, seen, articles>>
    /\ UNCHANGED notFetch

\* lines 42-59: one iteration of the loop over feed.entries
ProcessEntry(entry) ==
    /\ fpc = "loop" /\ inFeed /\ Len(seen) < MaxEntries
    /\ seen' = Append(seen, [entry |-> entry, source |-> feedIdx])
    /\ articles' =
          IF Keeps(PublishedTime(entry), cutoff_time)
          THEN Append(articles, [published |-> PublishedTime(entry)[1],
                                 source |-> feedIdx,
                                 seq |-> Len(seen) + 1])
          ELSE articles
    /\ UNCHANGED <<fpc, cutoff_time, feedIdx, inFeed, failed>>
    /\ UNCHANGED notFetch

EntryRaisesLosesArticles ==
    /\ fpc = "loop" /\ inFeed
    /\ failed' = failed \cup {feedIdx}
    /\ feedIdx' = feedIdx + 1
    /\ inFeed' = FALSE
    /\ articles' = << >>
    /\ UNCHANGED <<fpc, cutoff_time, seen>>
    /\ UNCHANGED notFetch

\* lines 61-63: an iteration raises; the rest of the feed is skipped
EntryRaises ==
    /\ fpc = "loop" /\ inFeed
    /\ failed' = failed \cup {feedIdx}
    /\ feedIdx' = feedIdx + 1
    /\ inFeed' = FALSE
    /\ UNCHANGED <<fpc, cutoff_time, seen, articles>>
    /\ UNCHANGED notFetch

\* the loop over feed.entries ends
EndFeed ==
    /\ fpc = "loop" /\ inFeed
    /\ feedIdx' = feedIdx + 1
    /\ inFeed' = FALSE
    /\ UNCHANGED <<fpc, cutoff_time, seen, failed, articles>>
    /\ UNCHANGED notFetch

\* lines 65-67: sort and return
SortAndReturn ==
    /\ fpc = "loop" /\ feedIdx > NumFeeds
    /\ articles' = SortNewestFirst(articles)
    /\ fpc' = "returned"
    /\ UNCHANGED <<cutoff_time, feedIdx, inFeed, seen, failed>>
    /\ UNCHANGED notFetch

\* the values of the variables a specification does not use
FetchIdle ==
    /\ fpc = "idle" /\ cutoff_time = 0 /\ feedIdx = 1 /\ inFeed = FALSE
    /\ seen = << >> /\ failed = {} /\ articles = << >>
RenderIdle == rpc = "idle" /\ rArticles = << >> /\ rContent = << >>
IndexIdle ==
    /\ strategy = "none" /\ readme = [exists |-> FALSE, text |-> << >>]
    /\ hist = << >>

RunIdle == ppc = "idle" /\ git = << >> /\ obs = << >>
DiskIdle ==
    /\ weekday = 0 /\ clock = << >> /\ digests = << >> /\ writes = << >>

Init ==
    /\ RenderIdle /\ IndexIdle /\ RunIdle /\ DiskIdle
    /\ fpc = "loop"
    /\ cutoff_time \in Times
    /\ feedIdx = 1
    /\ inFeed = FALSE
    /\ seen = << >>
    /\ failed = {}
    /\ articles = << >>

Next ==
    \/ ParseFeed
    \/ \E entry \in Entries : ProcessEntry(entry)
    \/ EntryRaises
    \/ EndFeed
    \/ SortAndReturn

Spec == Init /\ [][Next]_vars

(***************************************************************************)
(* Claims about fetch_articles_from_feeds (checked under Spec).            *)
(***************************************************************************)
\* the position of fetched entry i in the list `articles`, as a set
PositionsOf(i) == {k \in 1..Len(articles) : articles[k].seq = i}
HasTimestamp(e) == e.published_parsed # None \/ e.updated_parsed # None
TimestampOf(e) ==
    IF e.published_parsed # None THEN e.published_parsed[1] ELSE e.updated_parsed[1]

\* C1: an entry the loop has read is in the returned list if and only if it has
\* a publish timestamp (published, else updated) and that timestamp is >= the
\* cutoff; it is there once, with that timestamp; an entry dated exactly at the
\* cutoff is kept and one with neither field is dropped.  Entries dated now,
\* a little before the cutoff window's end and beyond it yield the first two.
C1_FilterIff ==
    fpc = "returned" =>
        /\ \A i \in 1..Len(seen) :
              LET e == seen[i].entry IN
              /\ PositionsOf(i) # {} <=>
                    (HasTimestamp(e) /\ TimestampOf(e) >= cutoff_time)
              /\ Cardinality(PositionsOf(i)) <= 1
              /\ \A k \in PositionsOf(i) : articles[k].published = TimestampOf(e)
        /\ \A k \in 1..Len(articles) : articles[k].seq \in 1..Len(seen)
        /\ (/\ Len(seen) = 3 /\ cutoff_time = 1
            /\ \A i \in 1..3 : seen[i].entry.published_parsed # None
            /\ seen[1].entry.published_parsed[1] = 3
            /\ seen[2].entry.published_parsed[1] = 2
            /\ seen[3].entry.published_parsed[1] = 0)
           => (Len(articles) = 2 /\ articles[1].seq = 1 /\ articles[2].seq = 2)

\* a run that kept an entry dated exactly at the cutoff through the fallback
\* field, dropped an entry with neither field and dropped an older entry
C1_Witness ==
    /\ fpc = "returned" /\ Len(seen) = 3 /\ cutoff_time > 0
    /\ \E i, j, k \in 1..3 :
          /\ seen[i].entry.published_parsed = None
          /\ seen[i].entry.updated_parsed = <<cutoff_time>>
          /\ PositionsOf(i) # {}
          /\ seen[j].entry.published_parsed = None
          /\ seen[j].entry.updated_parsed = None
          /\ PositionsOf(j) = {}
          /\ seen[k].entry.published_parsed = <<cutoff_time - 1>>
          /\ PositionsOf(k) = {}

\* C2: the returned list is ordered by publish timestamp, newest first, and
\* two items with equal timestamps keep their fetch order (feed order in
\* RSS_FEEDS, then entry order within the feed).
C2_SortedStable ==
    fpc = "returned" =>
        \A i, j \in 1..Len(articles) :
            i < j =>
              /\ articles[i].published >= articles[j].published
              /\ articles[i].published = articles[j].published =>
                    /\ articles[i].seq < articles[j].seq
                    /\ articles[i].source <= articles[j].source

\* a returned list of three: the input was not in order, and two items of
\* different feeds share a timestamp
C2_Witness ==
    /\ fpc = "returned" /\ Len(articles) = 3
    /\ articles[1].seq = 3
    /\ articles[2].published = articles[3].published
    /\ articles[2].source # articles[3].source


(***************************************************************************)
(* Text.  A Python string is modelled as a sequence of runs [c, n]: n >= 1 *)
(* repetitions of the character c, no two adjacent runs of the same        *)
(* character.  A fixed piece of a template, an HTML tag and an HTML entity *)
(* are each one "character".                                               *)
(***************************************************************************)
Run(c, n) == [c |-> c, n |-> n]
Lit(c) == <<Run(c, 1)>>
NL(n) == <<Run("\n", n)>>

RECURSIVE Norm(_)
Norm(s) ==
    IF Len(s) <= 1 THEN s
    ELSE IF s[1].c = s[2].c
         THEN Norm(<<Run(s[1].c, s[1].n + s[2].n)>> \o SubSeq(s, 3, Len(s)))
         ELSE <<s[1]>> \o Norm(Tail(s))

\* a + b, for a and b without adjacent runs of one character
Cat(a, b) ==
    IF a = << >> THEN b
    ELSE IF b = << >> THEN a
    ELSE IF a[Len(a)].c = b[1].c
         THEN SubSeq(a, 1, Len(a) - 1) \o <<Run(b[1].c, a[Len(a)].n + b[1].n)>> \o Tail(b)
         ELSE a \o b

\* len(s)
RECURSIVE StrLen(_)
StrLen(s) == IF s = << >> THEN 0 ELSE s[1].n + StrLen(Tail(s))

\* s[:k]
RECURSIVE Take(_, _)
Take(s, k) ==
    IF k = 0 \/ s = << >> THEN << >>
    ELSE IF s[1].n <= k THEN <<s[1]>> \o Take(Tail(s), k - s[1].n)
    ELSE <<Run(s[1].c, k)>>

IsSpace(c) == c \in {" ", "\n"}

RECURSIVE LStrip(_)
LStrip(s) == IF s # << >> /\ IsSpace(s[1].c) THEN LStrip(Tail(s)) ELSE s

\* s.strip()
Strip(s) == Reverse(LStrip(Reverse(LStrip(s))))

\* s.split('\n'): the pieces between the line breaks; a run of n line breaks
\* closes one piece and yields n - 1 empty ones
SplitLines(s) ==
    LET nls == SelectSeq([i \in 1..Len(s) |-> i], LAMBDA i : s[i].c = "\n")
        K == Len(nls)
        piece(k) == SubSeq(s, IF k = 0 THEN 1 ELSE nls[k] + 1,
                              IF k = K THEN Len(s) ELSE nls[k + 1] - 1)
        RECURSIVE build(_)
        build(k) ==
            IF k = K THEN <<piece(K)>>
            ELSE <<piece(k)>> \o [j \in 1..(s[nls[k + 1]].n - 1) |-> << >>] \o build(k + 1)
    IN  build(0)

\* the number of lines of s that satisfy P
CountLines(s, P(_)) ==
    LET lines == SplitLines(s) IN Cardinality({i \in DOMAIN lines : P(lines[i])})

(***************************************************************************)
(* daily_news_bot.clean_html_tags and generate_markdown_content            *)
(***************************************************************************)
\* the characters that are HTML tags (matched by '<[^<]+?>') and entities
Tags == {"<p>", "</p>"}
Unescaped(c) == IF c = "&amp;" THEN "&" ELSE c

\* lines 70-76
clean_html_tags(text) ==
    LET noTags == Norm(SelectSeq(text, LAMBDA r : r.c \notin Tags))
        decoded == Norm([i \in DOMAIN noTags |-> Run(Unescaped(noTags[i].c), noTags[i].n)])
    IN  Strip(decoded)

\* line 105: the character budget of a summary
SummaryBudget == 500

\* lines 103-106
DisplaySummary(raw) ==
    LET summary == clean_html_tags(raw)
    IN  IF StrLen(summary) > SummaryBudget
        THEN Cat(Take(summary, SummaryBudget), <<Run(".", 3)>>)
        ELSE summary

Separator == <<Run("-", 3)>>

\* lines 100-111: the text one article adds, without its closing separator
ArticleBody(article) ==
    Cat(Lit("## **"), Cat(article.title, Cat(Lit("**"), Cat(NL(2),
    Cat(Lit("**Description:** "), Cat(DisplaySummary(article.summary), Cat(NL(2),
    Cat(Lit("**Link:** ["), Cat(article.link, Cat(Lit("]("), Cat(article.link,
    Cat(Lit(")"), Cat(NL(2),
    Cat(Lit("**Source:** "), Cat(article.source, Cat(Lit(" | **Published:** "),
    Cat(article.published, NL(2))))))))))))))))))

ArticleTextNoSeparator(article) == ArticleBody(article)

\* lines 100-111
ArticleText(article) == Cat(ArticleBody(article), Cat(Separator, NL(2)))

RECURSIVE ArticlesText(_)
ArticlesText(as) ==
    IF as = << >> THEN << >>
    ELSE Cat(ArticleText(Head(as)), ArticlesText(Tail(as)))

Placeholder == Lit("*No new articles found in the last 24 hours.*")

\* lines 79-113
generate_markdown_content(as, date_str) ==
    LET header == Cat(Lit("# Cyber Security News - "), Cat(date_str, NL(2)))
    IN  IF as = << >>
        THEN Cat(header, Cat(Placeholder, NL(1)))
        ELSE Cat(header,
             Cat(Lit("*"), Cat(<<Run("<len(articles)>", Len(as))>>,
             Cat(Lit(" articles found*"), Cat(NL(2),
             Cat(Separator, Cat(NL(2), ArticlesText(as))))))))

\* the summaries a feed entry may carry
Summaries ==
    { <<Run("x", 400)>>,
      <<Run("x", 600)>>,
      <<Run("<p>", 1), Run("x", 1), Run("\n", 1), Run("-", 3), Run("</p>", 1)>>,
      <<Run(" ", 1), Run("x", 1), Run("&amp;", 1), Run("x", 1), Run(" ", 2)>>,
      <<Run("-", 3)>>,
      <<Run("x", 498), Run("\n", 1), Run("-", 3)>> }

\* the titles a feed entry may carry
Titles ==
    { <<Run("t", 5)>>,
      <<Run("t", 1), Run("\n", 1), Run("## **", 1), Run("t", 1)>> }

RenderArticles ==
    [title : Titles, summary : Summaries, link : {Lit("<url>")},
     source : {Lit("Security Week")}, published : {Lit("<%Y-%m-%d %H:%M UTC>")}]

RECURSIVE SeqsUpTo(_, _)
SeqsUpTo(S, n) ==
    IF n = 0 THEN {<< >>}
    ELSE SeqsUpTo(S, n - 1) \cup
         {Append(q, x) : q \in {r \in SeqsUpTo(S, n - 1) : Len(r) = n - 1}, x \in S}

\* the call generate_markdown_content(articles, date_str)
Render ==
    /\ rpc = "call"
    /\ rContent' = generate_markdown_content(rArticles, Lit("<%Y-%m-%d>"))
    /\ rpc' = "returned"
    /\ UNCHANGED rArticles
    /\ UNCHANGED notRender

InitRender ==
    /\ FetchIdle /\ IndexIdle /\ RunIdle /\ DiskIdle
    /\ rpc = "call"
    /\ rArticles \in SeqsUpTo(RenderArticles, MaxArticles)
    /\ rContent = << >>

NextRender == Render

SpecRender == InitRender /\ [][NextRender]_vars

(***************************************************************************)
(* Claims about generate_markdown_content (checked under SpecRender).      *)
(***************************************************************************)
IsSeparatorLine(line) == line = Separator
IsItemHeading(line) == line # << >> /\ line[1].c = "## **"
IsPlaceholderLine(line) == line = Placeholder
SingleLine(text) == \A i \in DOMAIN text : text[i].c # "\n"
SingleLineFields(a) ==
    /\ SingleLine(a.title) /\ SingleLine(DisplaySummary(a.summary))
    /\ SingleLine(a.link) /\ SingleLine(a.source)

\* C7 as stated: no items give the placeholder, no item section and no
\* separator; N >= 1 items give exactly N item sections and exactly N
\* separator lines.
C7_NSeparators ==
    rpc = "returned" =>
        IF rArticles = << >>
        THEN /\ CountLines(rContent, IsPlaceholderLine) = 1
             /\ CountLines(rContent, IsItemHeading) = 0
             /\ CountLines(rContent, IsSeparatorLine) = 0
        ELSE /\ CountLines(rContent, IsItemHeading) = Len(rArticles)
             /\ CountLines(rContent, IsSeparatorLine) = Len(rArticles)

\* C7 as amended: no items give the placeholder, no item section and no
\* separator; N >= 1 items whose title, displayed summary, link and source hold
\* no line break give exactly N item sections, no placeholder and exactly
\* N + 1 separator lines: one below the article count and one closing each item.
C7_NPlusOneSeparators ==
    rpc = "returned" =>
        IF rArticles = << >>
        THEN /\ CountLines(rContent, IsPlaceholderLine) = 1
             /\ CountLines(rContent, IsItemHeading) = 0
             /\ CountLines(rContent, IsSeparatorLine) = 0
        ELSE (\A i \in DOMAIN rArticles : SingleLineFields(rArticles[i]))
             => /\ CountLines(rContent, IsItemHeading) = Len(rArticles)
                /\ CountLines(rContent, IsPlaceholderLine) = 0
                /\ CountLines(rContent, IsSeparatorLine) = Len(rArticles) + 1

\* three single-line items rendered, one of them truncated
C7_Witness ==
    /\ rpc = "returned" /\ Len(rArticles) = 3
    /\ \A i \in 1..3 : SingleLineFields(rArticles[i])
    /\ rArticles[2].summary = <<Run("x", 600)>>
    /\ CountLines(rContent, IsSeparatorLine) = 4

(***************************************************************************)
(* update_readme: fetch_cyber_news.py lines 98-137 and daily_news_bot.py   *)
(* lines 150-200.  The section heading and a digest's link text are each   *)
(* one character of the text model.                                        *)
(***************************************************************************)
\* fetch_cyber_news.py line 116, daily_news_bot.py line 172
Heading(st) == IF st = "agent" THEN "## Cyber Security News" ELSE "## Latest News"

\* fetch_cyber_news.py lines 100-101: "- [<timestamp>](newsitems/<filename>)";
\* daily_news_bot.py lines 168-169, without the line break:
\* "- [<date>](NewsArticles/<filename>)"
AgentLinkTexts ==
    << "- [d1 10:00](newsitems/CyberNews-d1_10:00.md)",
       "- [d2 10:00](newsitems/CyberNews-d2_10:00.md)",
       "- [d3 10:00](newsitems/CyberNews-d3_10:00.md)",
       "- [d4 10:00](newsitems/CyberNews-d4_10:00.md)",
       "- [d5 10:00](newsitems/CyberNews-d5_10:00.md)" >>
FeedLinkTexts ==
    << "- [d1](NewsArticles/d1.md)", "- [d2](NewsArticles/d2.md)",
       "- [d3](NewsArticles/d3.md)", "- [d4](NewsArticles/d4.md)",
       "- [d5](NewsArticles/d5.md)" >>
LinkText(st, k) == IF st = "agent" THEN AgentLinkTexts[k] ELSE FeedLinkTexts[k]

\* `piece in content`, for a piece that is one character of the model
Contains(content, piece) == \E i \in DOMAIN content : content[i].c = piece

\* content.endswith('\n')
EndsWithNewline(content) == content # << >> /\ content[Len(content)].c = "\n"

\* '\n'.join(lines)
RECURSIVE Join(_)
Join(lines) ==
    IF lines = << >> THEN << >>
    ELSE IF Len(lines) = 1 THEN lines[1]
    ELSE Cat(lines[1], Cat(NL(1), Join(Tail(lines))))

\* the first index i (from 1) with lines[i].strip() == heading, or 0
FirstHeadingLine(lines, heading) ==
    LET hits == {i \in DOMAIN lines : Strip(lines[i]) = Lit(heading)}
    IN  IF hits = {} THEN 0 ELSE CHOOSE i \in hits : \A j \in hits : i <= j

\* lines.insert(at, line), at counted from 0
InsertAt(lines, at, line) ==
    SubSeq(lines, 1, at) \o <<line>> \o SubSeq(lines, at + 1, Len(lines))

\* fetch_cyber_news.py line 108
AgentBoilerplate ==
    Cat(Lit("# Daily News"), Cat(NL(2), Cat(Lit(Heading("agent")), NL(2))))

\* daily_news_bot.py line 165
FeedBoilerplate ==
    Cat(Lit("# DailyNews"), Cat(NL(2),
    Cat(Lit("A simple page to show the daily news"), NL(1))))

\* fetch_cyber_news.py lines 116-132: the content to write
AgentNewContent(content, link) ==
    IF Contains(content, Heading("agent"))
    THEN LET lines == SplitLines(content)
             found == FirstHeadingLine(lines, Heading("agent"))
         IN  IF found # 0 THEN Join(InsertAt(lines, found, Lit(link))) ELSE content
    ELSE Cat(IF EndsWithNewline(content) THEN content ELSE Cat(content, NL(1)),
         Cat(Lit(Heading("agent")), Cat(NL(2), Cat(Lit(link), NL(1)))))

\* fetch_cyber_news.py lines 98-137: the value returned and the file left
AgentUpdate(file, link) ==
    LET content == IF file.exists THEN file.text ELSE AgentBoilerplate
    IN  IF Contains(content, link)
        THEN [ret |-> FALSE, wrote |-> FALSE, file |-> file]
        ELSE [ret |-> TRUE, wrote |-> TRUE,
              file |-> [exists |-> TRUE, text |-> AgentNewContent(content, link)]]

\* daily_news_bot.py lines 174-188
FeedInsertBelowHeading(content, link) ==
    LET lines == SplitLines(content)
        found == FirstHeadingLine(lines, Heading("feed"))
        gap == IF found # 0 /\ found < Len(lines) /\ Strip(lines[found + 1]) # << >>
               THEN << << >> >> ELSE << >>
    IN  IF found = 0 THEN content
        ELSE Join(SubSeq(lines, 1, found) \o gap \o <<Lit(link)>>
                  \o SubSeq(lines, found + 1, Len(lines)))

\* daily_news_bot.py lines 171-194: the content to write
FeedNewContent(content, link) ==
    IF Contains(content, Heading("feed"))
    THEN FeedInsertBelowHeading(content, link)
    ELSE Cat(IF EndsWithNewline(content) THEN content ELSE Cat(content, NL(1)),
         Cat(NL(1), Cat(Lit(Heading("feed")), Cat(NL(2), Cat(Lit(link), NL(1))))))

\* daily_news_bot.py lines 150-200: it returns nothing and reports "Updated"
FeedUpdate(file, link) ==
    LET content == IF file.exists THEN file.text ELSE FeedBoilerplate
    IN  [ret |-> TRUE, wrote |-> TRUE,
         file |-> [exists |-> TRUE, text |-> FeedNewContent(content, link)]]

\* one call of update_readme with the link of digest k
AgentUpdateReadme(k) ==
    /\ strategy = "agent" /\ Len(hist) < MaxUpdates
    /\ LET r == AgentUpdate(readme, LinkText("agent", k))
       IN  /\ readme' = r.file
           /\ hist' = Append(hist, [k |-> k, ret |-> r.ret, wrote |-> r.wrote,
                                    before |-> readme, after |-> r.file])
    /\ UNCHANGED strategy
    /\ UNCHANGED notIndex

FeedUpdateReadme(k) ==
    /\ strategy = "feed" /\ Len(hist) < MaxUpdates
    /\ LET r == FeedUpdate(readme, LinkText("feed", k))
       IN  /\ readme' = r.file
           /\ hist' = Append(hist, [k |-> k, ret |-> r.ret, wrote |-> r.wrote,
                                    before |-> readme, after |-> r.file])
    /\ UNCHANGED strategy
    /\ UNCHANGED notIndex

\* the lines a README.md may hold before the first run
ReadmeLines(st) ==
    { << >>,
      Lit(Heading(st)),
      <<Run(" ", 2), Run(Heading(st), 1), Run(" ", 1)>>,
      <<Run("#", 1), Run(Heading(st), 1)>>,
      <<Run(Heading(st), 1), Run(" archive", 1)>>,
      Lit("text"),
      Lit(LinkText(st, 1)) }

InitialReadmes(st) ==
    {[exists |-> FALSE, text |-> << >>]} \cup
    {[exists |-> TRUE, text |-> Join(ls)] : ls \in SeqsUpTo(ReadmeLines(st), MaxReadmeLines)}

InitIndex ==
    /\ FetchIdle /\ RenderIdle /\ RunIdle /\ DiskIdle
    /\ strategy \in {"agent", "feed"}
    /\ readme \in InitialReadmes(strategy)
    /\ hist = << >>

NextIndex ==
    \/ \E k \in 1..MaxLinks : AgentUpdateReadme(k)
    \/ \E k \in 1..MaxLinks : FeedUpdateReadme(k)

SpecIndex == InitIndex /\ [][NextIndex]_vars

(***************************************************************************)
(* Claims about update_readme (checked under SpecIndex).                   *)
(***************************************************************************)
\* content.count(piece), for a piece that is one character of the model
RECURSIVE Occurrences(_, _)
Occurrences(content, piece) ==
    IF content = << >> THEN 0
    ELSE (IF content[1].c = piece THEN content[1].n ELSE 0)
         + Occurrences(Tail(content), piece)

\* the link of call i of the history
LinkOf(i) == LinkText(strategy, hist[i].k)

\* the link is on a line below the first line that is the section heading
LinkUnderHeading(content, link) ==
    LET lines == SplitLines(content)
        h == FirstHeadingLine(lines, Heading(strategy))
    IN  h # 0 /\ \E i \in DOMAIN lines : i > h /\ Contains(lines[i], link)

\* C3: calling the agent strategy's update_readme twice with the same link
\* text (on an index that held the link at most once) leaves exactly one
\* occurrence of the link; the second call writes nothing, leaves the file
\* unchanged and returns False.
C3_AgentIdempotent ==
    strategy = "agent" =>
        \A i \in 1..(Len(hist) - 1) :
            (/\ hist[i].k = hist[i + 1].k
             /\ Occurrences(hist[i].before.text, LinkOf(i)) <= 1)
            => /\ Occurrences(hist[i + 1].after.text, LinkOf(i)) = 1
               /\ ~hist[i + 1].ret
               /\ ~hist[i + 1].wrote
               /\ hist[i + 1].after = hist[i + 1].before

\* C4: the feed strategy's update_readme skips the write when the link text is
\* already in README.md, so two runs on one date (on an index that held the
\* link at most once) leave exactly one occurrence of the link.
C4_FeedIdempotent ==
    strategy = "feed" =>
        /\ \A i \in 1..Len(hist) :
              Contains(hist[i].before.text, LinkOf(i))
              => ~hist[i].wrote /\ hist[i].after = hist[i].before
        /\ \A i \in 1..(Len(hist) - 1) :
              (/\ hist[i].k = hist[i + 1].k
               /\ Occurrences(hist[i].before.text, LinkOf(i)) <= 1)
              => Occurrences(hist[i + 1].after.text, LinkOf(i)) = 1

\* C5: when the link is absent before the call (file missing, heading present
\* or not) and update_readme reports the update, the file then holds the link
\* exactly once, below the section heading.
C5_LinkOnceUnderHeading ==
    \A i \in 1..Len(hist) :
        (~Contains(hist[i].before.text, LinkOf(i)) /\ hist[i].ret)
        => /\ Occurrences(hist[i].after.text, LinkOf(i)) = 1
           /\ LinkUnderHeading(hist[i].after.text, LinkOf(i))

\* the calls so far named pairwise distinct links, none in the first file, and
\* the first file was missing or had the section heading as a line
DistinctLinksFromHeading ==
    /\ hist # << >>
    /\ \A i, j \in 1..Len(hist) : i # j => hist[i].k # hist[j].k
    /\ \A i \in 1..Len(hist) : ~Contains(hist[1].before.text, LinkOf(i))
    /\ \/ ~hist[1].before.exists
       \/ FirstHeadingLine(SplitLines(hist[1].before.text), Heading(strategy)) # 0

\* the line of link i of the history in the current README.md, or 0
LineOfLink(i) ==
    LET lines == SplitLines(readme.text)
        hits == {n \in DOMAIN lines : lines[n] = Lit(LinkOf(i))}
    IN  IF hits = {} THEN 0 ELSE CHOOSE n \in hits : \A m \in hits : n <= m

IsLinkLine(line) ==
    \E k \in 1..MaxLinks : line = Lit(LinkText(strategy, k))

\* the newest link is the first link line below the heading, and the links
\* added lie below the heading, newest first
NewestFirstUnderHeading ==
    LET lines == SplitLines(readme.text)
        h == FirstHeadingLine(lines, Heading(strategy))
        below == {n \in DOMAIN lines : n > h /\ IsLinkLine(lines[n])}
    IN  /\ h # 0
        /\ LineOfLink(Len(hist)) \in below
        /\ \A n \in below : LineOfLink(Len(hist)) <= n
        /\ \A i \in 1..Len(hist) : LineOfLink(i) > h
        /\ \A i, j \in 1..Len(hist) : i < j => LineOfLink(j) < LineOfLink(i)

\* a blank line lies between the heading and the newest link
BlankBelowHeading ==
    LET lines == SplitLines(readme.text)
        h == FirstHeadingLine(lines, Heading(strategy))
    IN  /\ h # 0 /\ h + 2 <= Len(lines)
        /\ Strip(lines[h + 1]) = << >>
        /\ lines[h + 2] = Lit(LinkOf(Len(hist)))

\* C6: after updates with pairwise distinct links, from a missing index or
\* one with the heading as a line, the newest link is the first link line
\* under the heading, the links added lie below it in reverse order of
\* insertion, and in the feed strategy a blank line separates the heading
\* from the newest link.
C6_NewestFirstWithBlank ==
    DistinctLinksFromHeading =>
        /\ NewestFirstUnderHeading
        /\ strategy = "feed" => BlankBelowHeading

C6_OrderOnly == DistinctLinksFromHeading => NewestFirstUnderHeading

(***************************************************************************)
(* fetch_cyber_news.py: main, run_gemini_cli, save_news_item and           *)
(* git_commit_and_push, one run.  Every subprocess call is a step that     *)
(* ends zero ("ok"), non-zero ("fail") or in its timeout ("timeout", the   *)
(* exception subprocess.TimeoutExpired); a step that does not end zero     *)
(* leaves the repository as it was.                                        *)
(*                                                                         *)
(* The repository holds three kinds of file: "content" (README.md and      *)
(* newsitems/), "scripts" (the tracked automation scripts) and "other"     *)
(* (a file outside both).  A tree gives each kind a version: 0 absent,     *)
(* 1 as last committed on main, 2 changed since.                           *)
(***************************************************************************)
Absent == 0
Committed == 1
Changed == 2

EmptyTree == [content |-> Absent, scripts |-> Absent, other |-> Absent]
Main == "main"
GithubBranch == "github-publish"

\* the tree of the commit HEAD names (the empty tree on an unborn branch)
HeadTree(g) == IF g.head \in g.branches THEN g.tips[g.head] ELSE EmptyTree

\* `git status --porcelain` prints something
StatusNotEmpty(g) == g.idx # HeadTree(g) \/ g.wt # g.idx

\* lines 53-75: what run_gemini_cli returns; "None" is Python's None
run_gemini_cli_IgnoringReturnCode(res) ==
    IF res.kind \in {"timeout", "raises"} THEN "None" ELSE res.stdout

run_gemini_cli(res) == IF res.kind = "ok" THEN res.stdout ELSE "None"

\* line 550: not output or not output.strip()
NoOutput(output) == output \in {"None", "", " \n"}

\* the ways the agent subprocess of line 57 can end
AgentResults ==
    [kind : {"ok", "nonzero"}, stdout : {"", " \n", "**news**"}]
    \cup [kind : {"timeout", "raises"}, stdout : {""}]

ObsRet(o, value, message) == [o EXCEPT !.ret = value, !.msg = message]

\* lines 535-537: a TimeoutExpired outside the GitHub block
TimedOut ==
    /\ ppc' = "returned"
    /\ obs' = ObsRet(obs, "False", "timeout")
    /\ UNCHANGED git

\* lines 545-552
RunGeminiCli(res) ==
    /\ ppc = "start"
    /\ IF NoOutput(run_gemini_cli(res))
       THEN /\ ppc' = "done"
            /\ obs' = [obs EXCEPT !.agent = res, !.exit = "1"]
       ELSE /\ ppc' = "save"
            /\ obs' = [obs EXCEPT !.agent = res]
    /\ UNCHANGED <<git, indexVars>>
    /\ UNCHANGED notRun

\* lines 78-95 and 555: the file is new, or a file of the same minute is
\* written again with the same text, or the write raises
SaveNewsItem ==
    /\ ppc = "save"
    /\ \/ /\ ppc' = "readme"
          /\ git' = [git EXCEPT !.wt.content = Changed]
          /\ obs' = [obs EXCEPT !.digestWritten = TRUE]
       \/ /\ ppc' = "readme"
          /\ obs' = [obs EXCEPT !.digestWritten = TRUE]
          /\ UNCHANGED git
       \/ /\ ppc' = "done"
          /\ obs' = [obs EXCEPT !.exit = "1"]
          /\ UNCHANGED git
    /\ UNCHANGED indexVars
    /\ UNCHANGED notRun

\* lines 559-565: update_readme, then git_commit_and_push is entered
UpdateReadme ==
    /\ ppc = "readme"
    /\ LET r == AgentUpdate(readme, LinkText("agent", 1))
       IN  /\ readme' = r.file
           /\ git' = [git EXCEPT !.wt.content =
                         IF r.wrote /\ r.file # readme THEN Changed ELSE @]
           /\ obs' = [obs EXCEPT !.readmeWrote = r.wrote,
                                 !.publishStarted = TRUE,
                                 !.nothingToStage =
                                     ~(r.wrote /\ r.file # readme)
                                     /\ git.wt.content = HeadTree(git).content]
    /\ ppc' = "configure"
    /\ UNCHANGED <<strategy, hist>>
    /\ UNCHANGED notRun

\* line 304, lines 174-294: the remotes are set from .env; a git call in it
\* may time out
ConfigureRemotes ==
    /\ ppc = "configure"
    /\ \/ /\ ppc' = "revparse"
          /\ \E added \in {git.github, TRUE} : git' = [git EXCEPT !.github = added]
          /\ UNCHANGED obs
       \/ TimedOut
    /\ UNCHANGED indexVars
    /\ UNCHANGED notRun

\* lines 306-316
RevParseGitDir ==
    /\ ppc = "revparse"
    /\ \/ ppc' = "status" /\ UNCHANGED <<git, obs>>
       \/ /\ ppc' = "returned"
          /\ obs' = ObsRet(obs, "False", "not a repository")
          /\ UNCHANGED git
       \/ TimedOut
    /\ UNCHANGED indexVars
    /\ UNCHANGED notRun

\* lines 318-329: an empty stdout (also that of a failed call) is "no changes"
GitStatus ==
    /\ ppc = "status"
    /\ \/ /\ StatusNotEmpty(git)
          /\ ppc' = "add" /\ UNCHANGED <<git, obs>>
       \/ /\ ~StatusNotEmpty(git)
          /\ ppc' = "returned"
          /\ obs' = ObsRet(obs, "True", "no changes")
          /\ UNCHANGED git
       \/ /\ ppc' = "returned"
          /\ obs' = ObsRet(obs, "True", "no changes")
          /\ UNCHANGED git
       \/ TimedOut
    /\ UNCHANGED indexVars
    /\ UNCHANGED notRun

\* the index after `git add newsitems/ README.md`
AddContent(g) == [g EXCEPT !.idx.content = g.wt.content]

\* the index after `git add --all`
AddAll(g) == [g EXCEPT !.idx = g.wt]

\* lines 331-342
GitAdd ==
    /\ ppc = "add"
    /\ \/ ppc' = "upstream" /\ git' = AddContent(git) /\ UNCHANGED obs
       \/ /\ ppc' = "returned"
          /\ obs' = ObsRet(obs, "False", "error adding")
          /\ UNCHANGED git
       \/ TimedOut
    /\ UNCHANGED indexVars
    /\ UNCHANGED notRun

\* lines 344-352: the exit status is ignored
SetUpstream ==
    /\ ppc = "upstream"
    /\ \/ ppc' = "pull" /\ UNCHANGED <<git, obs>>
       \/ TimedOut
    /\ UNCHANGED indexVars
    /\ UNCHANGED notRun

\* the pull finds the staged content already on origin/main: main moves to it
Absorb(g) ==
    [g EXCEPT !.tips[Main] = [g.tips[Main] EXCEPT !.content = g.idx.content]]

\* lines 354-364: the pull ends zero (nothing new for the files of the model,
\* or the staged content is already upstream), or non-zero
GitPull ==
    /\ ppc = "pull"
    /\ \/ ppc' = "commit" /\ UNCHANGED <<git, obs>>
       \/ /\ git.head = Main /\ git.idx.content # HeadTree(git).content
          /\ ppc' = "commit" /\ git' = Absorb(git) /\ UNCHANGED obs
       \/ ppc' = "fetch" /\ UNCHANGED <<git, obs>>
       \/ TimedOut
    /\ UNCHANGED indexVars
    /\ UNCHANGED notRun

\* lines 367-373: the exit status is ignored
GitFetch ==
    /\ ppc = "fetch"
    /\ \/ ppc' = "merge" /\ UNCHANGED <<git, obs>>
       \/ TimedOut
    /\ UNCHANGED indexVars
    /\ UNCHANGED notRun

\* lines 374-383: a failed merge is a warning
GitMerge ==
    /\ ppc = "merge"
    /\ \/ ppc' = "commit" /\ UNCHANGED <<git, obs>>
       \/ TimedOut
    /\ UNCHANGED indexVars
    /\ UNCHANGED notRun

\* `git commit` with something staged: a commit of the index on the branch
\* HEAD names (which it creates when unborn)
Commit(g) ==
    [g EXCEPT !.tips[g.head] = g.idx, !.branches = @ \cup {g.head}]

\* git's message when nothing is staged holds "nothing to commit" only when
\* the working tree has no change and no untracked file either
SaysNothingToCommit(g) == g.idx = HeadTree(g) /\ g.wt = g.idx

\* lines 385-403
GitCommit ==
    /\ ppc = "commit"
    /\ \/ /\ git.idx # HeadTree(git)
          /\ ppc' = "pushorigin"
          /\ git' = Commit(git)
          /\ obs' = [obs EXCEPT !.commits = @ \cup {[branch |-> git.head, tree |-> git.idx]}]
       \/ /\ SaysNothingToCommit(git)
          /\ ppc' = "pushorigin" /\ UNCHANGED <<git, obs>>
       \/ /\ ~SaysNothingToCommit(git)
          /\ ppc' = "returned"
          /\ obs' = ObsRet(obs, "False", "error committing")
          /\ UNCHANGED git
       \/ TimedOut
    /\ UNCHANGED indexVars
    /\ UNCHANGED notRun

\* lines 405-418
PushOrigin ==
    /\ ppc = "pushorigin"
    /\ \/ /\ ppc' = "showgithub"
          /\ obs' = [obs EXCEPT !.originPush = "ok",
                                !.pushed = @ \cup {[remote |-> "origin", tree |-> git.tips[Main]]}]
          /\ UNCHANGED git
       \/ /\ ppc' = "showgithub"
          /\ obs' = [obs EXCEPT !.originPush = "fail"]
          /\ UNCHANGED git
       \/ /\ ppc' = "returned"
          /\ obs' = [ObsRet(obs, "False", "timeout") EXCEPT !.originPush = "timeout"]
          /\ UNCHANGED git
    /\ UNCHANGED indexVars
    /\ UNCHANGED notRun

\* lines 420-429 and 530-533: `git remote show github`
ShowGithub ==
    /\ ppc = "showgithub"
    /\ \/ /\ git.github
          /\ ppc' = "g_revparse"
          /\ obs' = [obs EXCEPT !.secondary = TRUE]
          /\ UNCHANGED git
       \/ /\ ppc' = "returned"
          /\ obs' = [ObsRet(obs, "True", "pushed") EXCEPT !.secondary = TRUE]
          /\ UNCHANGED git
       \/ /\ ppc' = "returned"
          /\ obs' = [ObsRet(obs, "False", "timeout") EXCEPT !.secondary = TRUE]
          /\ UNCHANGED git
    /\ UNCHANGED indexVars
    /\ UNCHANGED notRun

\* lines 518-519: an exception inside the GitHub block (a timeout) is caught
\* there; the handler of lines 521-529 follows
GithubTimedOut ==
    /\ ppc' = "g_except"
    /\ UNCHANGED <<git, obs>>

\* lines 433-441
GithubRevParse ==
    /\ ppc = "g_revparse"
    /\ \/ /\ ppc' = "g_delete"
          /\ \E name \in {git.head, Main} : git' = [git EXCEPT !.cur = name]
          /\ obs' = [obs EXCEPT !.atEntry = HeadTree(git)]
       \/ GithubTimedOut
    /\ UNCHANGED indexVars
    /\ UNCHANGED notRun

\* `git branch -D github-publish` ends zero
DeleteBranch(g) == [g EXCEPT !.branches = @ \ {GithubBranch}]
CanDeleteBranch(g) == GithubBranch \in g.branches /\ g.head # GithubBranch

\* lines 446-452: the exit status is ignored
GithubDeleteOld ==
    /\ ppc = "g_delete"
    /\ \/ CanDeleteBranch(git) /\ ppc' = "g_orphan" /\ git' = DeleteBranch(git) /\ UNCHANGED obs
       \/ ppc' = "g_orphan" /\ UNCHANGED <<git, obs>>
       \/ GithubTimedOut
    /\ UNCHANGED indexVars
    /\ UNCHANGED notRun

\* lines 454-460: `git checkout --orphan github-publish`; HEAD names the
\* unborn branch, index and working tree stay; the exit status is ignored
GithubOrphan ==
    /\ ppc = "g_orphan"
    /\ \/ /\ GithubBranch \notin git.branches
          /\ ppc' = "g_rm" /\ git' = [git EXCEPT !.head = GithubBranch] /\ UNCHANGED obs
       \/ ppc' = "g_rm" /\ UNCHANGED <<git, obs>>
       \/ GithubTimedOut
    /\ UNCHANGED indexVars
    /\ UNCHANGED notRun

\* lines 462-468: `git rm -rf --cached .`; the exit status is ignored
GithubUnstage ==
    /\ ppc = "g_rm"
    /\ \/ /\ git.idx # EmptyTree
          /\ ppc' = "g_add" /\ git' = [git EXCEPT !.idx = EmptyTree] /\ UNCHANGED obs
       \/ ppc' = "g_add" /\ UNCHANGED <<git, obs>>
       \/ GithubTimedOut
    /\ UNCHANGED indexVars
    /\ UNCHANGED notRun

\* lines 470-476: `git add README.md newsitems/`; the exit status is ignored
GithubAdd ==
    /\ ppc = "g_add"
    /\ \/ ppc' = "g_commit" /\ git' = AddContent(git) /\ UNCHANGED obs
       \/ ppc' = "g_commit" /\ UNCHANGED <<git, obs>>
       \/ GithubTimedOut
    /\ UNCHANGED indexVars
    /\ UNCHANGED notRun

\* lines 478-486: the exit status is ignored
GithubCommit ==
    /\ ppc = "g_commit"
    /\ \/ /\ git.idx # HeadTree(git)
          /\ ppc' = "g_push"
          /\ git' = Commit(git)
          /\ obs' = [obs EXCEPT !.commits = @ \cup {[branch |-> git.head, tree |-> git.idx]}]
       \/ ppc' = "g_push" /\ UNCHANGED <<git, obs>>
       \/ GithubTimedOut
    /\ UNCHANGED indexVars
    /\ UNCHANGED notRun

\* lines 488-495: `git push github github-publish:main --force`
GithubPush ==
    /\ ppc = "g_push"
    /\ \/ /\ GithubBranch \in git.branches
          /\ ppc' = "g_back"
          /\ obs' = [obs EXCEPT !.githubPush = "ok",
                                !.pushed = @ \cup {[remote |-> "github",
                                                     tree |-> git.tips[GithubBranch]]}]
          /\ UNCHANGED git
       \/ /\ ppc' = "g_back"
          /\ obs' = [obs EXCEPT !.githubPush = "fail"]
          /\ UNCHANGED git
       \/ /\ ppc' = "g_except"
          /\ obs' = [obs EXCEPT !.githubPush = "timeout"]
          /\ UNCHANGED git
    /\ UNCHANGED indexVars
    /\ UNCHANGED notRun

\* `git checkout <branch>` ends zero: HEAD names the branch and the index is
\* its tree
Checkout(g, branch) ==
    [g EXCEPT !.head = branch,
              !.idx = IF g.head = branch THEN g.idx ELSE g.tips[branch]]

\* git switches to a branch that exists, unless a file of it is an untracked
\* file of the working tree ("would be overwritten by checkout")
CanCheckout(g, branch) ==
    /\ branch \in g.branches
    /\ \/ g.head = branch
       \/ \A f \in DOMAIN g.wt :
             ~(g.idx[f] = Absent /\ g.wt[f] # Absent /\ g.tips[branch][f] # Absent)

\* lines 497-503: the exit status is ignored
GithubCheckoutBack ==
    /\ ppc = "g_back"
    /\ \/ /\ CanCheckout(git, git.cur)
          /\ ppc' = "g_cleanup" /\ git' = Checkout(git, git.cur) /\ UNCHANGED obs
       \/ ppc' = "g_cleanup" /\ UNCHANGED <<git, obs>>
       \/ GithubTimedOut
    /\ UNCHANGED indexVars
    /\ UNCHANGED notRun

\* lines 505-516 and 533: the exit status of the deletion is ignored
GithubCleanup ==
    /\ ppc = "g_cleanup"
    /\ \/ /\ CanDeleteBranch(git)
          /\ ppc' = "returned" /\ git' = DeleteBranch(git)
          /\ obs' = ObsRet(obs, "True", "pushed")
       \/ ppc' = "returned" /\ obs' = ObsRet(obs, "True", "pushed") /\ UNCHANGED git
       \/ GithubTimedOut
    /\ UNCHANGED indexVars
    /\ UNCHANGED notRun

\* lines 518-529 and 533: the handler tries to check the branch out again
\* (current_branch may not be set yet: the NameError is swallowed) and the
\* function returns True
GithubExcept ==
    /\ ppc = "g_except"
    /\ \/ /\ CanCheckout(git, git.cur)
          /\ git' = Checkout(git, git.cur)
       \/ UNCHANGED git
    /\ ppc' = "returned"
    /\ obs' = ObsRet(obs, "True", "github error")
    /\ UNCHANGED indexVars
    /\ UNCHANGED notRun

\* lines 565-567: the value returned is not read; the run ends with status 0
MainDone ==
    /\ ppc = "returned"
    /\ ppc' = "done"
    /\ obs' = [obs EXCEPT !.exit = "0"]
    /\ UNCHANGED <<git, indexVars>>
    /\ UNCHANGED notRun

\* the tree of main and the working tree when the other file is clean,
\* locally modified, or untracked
OtherStates ==
    { [tip |-> Committed, wt |-> Committed],
      [tip |-> Committed, wt |-> Changed],
      [tip |-> Absent, wt |-> Committed] }

\* the repositories a run may start in: on main, nothing staged, the digest
\* directory and README.md as committed
InitialRepos ==
    { [head |-> Main,
       branches |-> bs,
       tips |-> [b \in {Main, GithubBranch} |->
                   IF b = Main
                   THEN [content |-> Committed, scripts |-> Committed, other |-> o.tip]
                   ELSE IF b \in bs
                        THEN [content |-> Committed, scripts |-> Absent, other |-> Absent]
                        ELSE EmptyTree],
       idx |-> [content |-> Committed, scripts |-> Committed, other |-> o.tip],
       wt |-> [content |-> Committed, scripts |-> Committed, other |-> o.wt],
       github |-> gh,
       cur |-> "unset"]
      : bs \in {{Main}, {Main, GithubBranch}}, o \in OtherStates, gh \in BOOLEAN }

\* the README.md files a run may start with
RunReadmes ==
    { [exists |-> FALSE, text |-> << >>],
      [exists |-> TRUE, text |-> AgentBoilerplate],
      [exists |-> TRUE,
       text |-> Cat(AgentBoilerplate, Cat(Lit(LinkText("agent", 1)), NL(1)))] }

InitRun ==
    /\ FetchIdle /\ RenderIdle /\ DiskIdle
    /\ strategy = "agent"
    /\ readme \in RunReadmes
    /\ hist = << >>
    /\ ppc = "start"
    /\ git \in InitialRepos
    /\ obs = [agent |-> [kind |-> "none", stdout |-> ""], exit |-> "running",
              digestWritten |-> FALSE, readmeWrote |-> FALSE,
              publishStarted |-> FALSE, nothingToStage |-> FALSE,
              ret |-> "none", msg |-> "", commits |-> {}, pushed |-> {},
              originPush |-> "none", githubPush |-> "none", secondary |-> FALSE,
              atEntry |-> EmptyTree]

NextRun ==
    \/ \E res \in AgentResults : RunGeminiCli(res)
    \/ SaveNewsItem
    \/ UpdateReadme
    \/ ConfigureRemotes
    \/ RevParseGitDir
    \/ GitStatus
    \/ GitAdd
    \/ SetUpstream
    \/ GitPull
    \/ GitFetch
    \/ GitMerge
    \/ GitCommit
    \/ PushOrigin
    \/ ShowGithub
    \/ GithubRevParse
    \/ GithubDeleteOld
    \/ GithubOrphan
    \/ GithubUnstage
    \/ GithubAdd
    \/ GithubCommit
    \/ GithubPush
    \/ GithubCheckoutBack
    \/ GithubCleanup
    \/ GithubExcept
    \/ MainDone

SpecRun == InitRun /\ [][NextRun]_vars

\* the publish step has ended without a failed or timed-out git call before
\* the commit
ReachedCommitStep ==
    /\ ppc \in {"returned", "done"}
    /\ obs.publishStarted
    /\ obs.msg \notin {"timeout", "not a repository", "error adding"}

\* C8: when git_commit_and_push runs with no change to newsitems/ or
\* README.md, also with an unrelated file modified or untracked, it returns
\* the 'no changes' success, creates no commit on any branch and pushes
\* nothing.
C8_NoOpPublish ==
    (ReachedCommitStep /\ obs.nothingToStage) =>
        /\ obs.ret = "True"
        /\ obs.msg = "no changes"
        /\ obs.commits = {}
        /\ obs.pushed = {}

\* C9: when the push to origin ends non-zero or in its timeout and the remote
\* github is configured, git_commit_and_push still enters the GitHub step, and
\* the run ends with status 0.
C9_OriginFailureTolerated ==
    (ppc = "done" /\ obs.originPush \in {"fail", "timeout"} /\ git.github) =>
        /\ obs.secondary
        /\ obs.exit = "0"

\* the agent call ended non-zero, timed out, raised, or printed nothing but
\* white space
AgentFailed ==
    /\ obs.agent.kind # "none"
    /\ obs.agent.kind # "ok" \/ obs.agent.stdout \in {"", " \n"}

\* C10: when the agent call ends non-zero, times out, raises or prints only
\* white space, the run ends with status 1, no digest file is written,
\* README.md is not written and git_commit_and_push is never entered.
C10_AgentFailureAborts ==
    AgentFailed =>
        /\ ppc = "done"
        /\ obs.exit = "1"
        /\ ~obs.digestWritten
        /\ ~obs.readmeWrote
        /\ readme \in RunReadmes
        /\ git \in InitialRepos
        /\ ~obs.publishStarted

C10_Witness ==
    /\ ppc = "done"
    /\ obs.agent = [kind |-> "nonzero", stdout |-> "**news**"]
    /\ obs.exit = "1"

(***************************************************************************)
(* daily_news_bot.py: main, one run.  One unit of time is 24 hours; the    *)
(* run starts at time Now.                                                 *)
(***************************************************************************)
Now == MaxTime
\* Monday and Tuesday: the run reads nothing else of the day
Weekdays == {0, 1}

\* line 259: timedelta(hours=24), in units of time
Hours24 == 1

\* line 259: cutoff_time = datetime.now() - timedelta(hours=24)
FeedCutoff(now, day_of_week) == now - Hours24

\* lines 251-263: the cutoff is computed and fetch_articles_from_feeds called
FeedMainStart ==
    /\ ppc = "f_start"
    /\ cutoff_time' = FeedCutoff(Now, weekday)
    /\ fpc' = "loop"
    /\ ppc' = "f_fetch"
    /\ UNCHANGED <<feedIdx, inFeed, seen, failed, articles>>
    /\ UNCHANGED <<renderVars, indexVars, diskVars, git, obs>>

\* lines 116-147 and 267: the digest of the day is written (a new file, or a
\* file of the same day written again with the same text), or open() raises
\* and the run ends with a traceback
CreateDailyNewsFile ==
    /\ ppc = "f_fetch" /\ fpc = "returned"
    /\ \/ /\ ppc' = "f_readme"
          /\ git' = [git EXCEPT !.wt.content = Changed]
          /\ obs' = [obs EXCEPT !.digestWritten = TRUE]
       \/ /\ ppc' = "f_readme"
          /\ obs' = [obs EXCEPT !.digestWritten = TRUE]
          /\ UNCHANGED git
       \/ /\ ppc' = "done"
          /\ obs' = [obs EXCEPT !.exit = "1", !.msg = "write raised"]
          /\ UNCHANGED git
    /\ UNCHANGED <<fetchVars, renderVars, indexVars, diskVars>>

\* lines 150-200 and 270
FeedReadme ==
    /\ ppc = "f_readme"
    /\ LET r == FeedUpdate(readme, LinkText("feed", 1))
       IN  /\ readme' = r.file
           /\ git' = [git EXCEPT !.wt.content =
                         IF r.file # readme THEN Changed ELSE @]
           /\ obs' = [obs EXCEPT !.readmeWrote = r.wrote]
    /\ ppc' = "f_add"
    /\ UNCHANGED <<strategy, hist>>
    /\ UNCHANGED <<fetchVars, renderVars, diskVars>>

\* lines 242-246: an exception in git_commit_and_push is printed
FeedGitRaises ==
    /\ ppc' = "f_returned"
    /\ obs' = [obs EXCEPT !.msg = "git error"]
    /\ UNCHANGED git

\* lines 212-215: Repo(repo_path) and repo.git.add('--all')
FeedGitAdd ==
    /\ ppc = "f_add"
    /\ \/ ppc' = "f_commit" /\ git' = AddAll(git) /\ UNCHANGED obs
       \/ FeedGitRaises
    /\ UNCHANGED <<fetchVars, renderVars, indexVars, diskVars>>

\* line 218: repo.is_dirty() or repo.untracked_files
IsDirtyOrUntracked(g) == g.idx # HeadTree(g) \/ g.wt # g.idx

\* lines 218-222 and 239-240
FeedGitCommit ==
    /\ ppc = "f_commit"
    /\ \/ /\ IsDirtyOrUntracked(git)
          /\ ppc' = "f_push"
          /\ git' = Commit(git)
          /\ obs' = [obs EXCEPT !.commits = @ \cup {[branch |-> git.head, tree |-> git.idx]}]
       \/ /\ ~IsDirtyOrUntracked(git)
          /\ ppc' = "f_returned"
          /\ obs' = [obs EXCEPT !.msg = "no changes"]
          /\ UNCHANGED git
       \/ FeedGitRaises
    /\ UNCHANGED <<fetchVars, renderVars, indexVars, diskVars>>

\* lines 224-238: the push to origin succeeds, or its failure is printed
FeedGitPush ==
    /\ ppc = "f_push"
    /\ \/ /\ obs' = [obs EXCEPT !.msg = "pushed",
                                !.pushed = @ \cup {[remote |-> "origin",
                                                     tree |-> HeadTree(git)]}]
       \/ /\ obs' = [obs EXCEPT !.msg = "could not push"]
    /\ ppc' = "f_returned"
    /\ UNCHANGED git
    /\ UNCHANGED <<fetchVars, renderVars, indexVars, diskVars>>

\* lines 276-278: the run ends with status 0
FeedMainDone ==
    /\ ppc = "f_returned"
    /\ ppc' = "done"
    /\ obs' = [obs EXCEPT !.exit = "0"]
    /\ UNCHANGED git
    /\ UNCHANGED <<fetchVars, renderVars, indexVars, diskVars>>

\* the entries of the feeds of one run: published_parsed is set or not
FeedRunEntries == {e \in Entries : e.updated_parsed = None}

\* the README.md files a run may start with: none, or one an earlier run made
FeedRunReadmes ==
    { [exists |-> FALSE, text |-> << >>],
      FeedUpdate([exists |-> FALSE, text |-> << >>], LinkText("feed", 2)).file }

InitFeed ==
    /\ FetchIdle /\ RenderIdle
    /\ weekday \in Weekdays
    /\ clock = << >> /\ digests = << >> /\ writes = << >>
    /\ strategy = "feed"
    /\ readme \in FeedRunReadmes
    /\ hist = << >>
    /\ ppc = "f_start"
    /\ git \in {g \in InitialRepos : ~g.github /\ g.branches = {Main}}
    /\ obs = [exit |-> "running", digestWritten |-> FALSE, readmeWrote |-> FALSE,
              msg |-> "", commits |-> {}, pushed |-> {},
              otherAtStart |-> git.tips[Main].other]

NextFeed ==
    \/ FeedMainStart
    \/ ParseFeed
    \/ \E entry \in FeedRunEntries : ProcessEntry(entry)
    \/ EntryRaises
    \/ EndFeed
    \/ SortAndReturn
    \/ CreateDailyNewsFile
    \/ FeedReadme
    \/ FeedGitAdd
    \/ FeedGitCommit
    \/ FeedGitPush
    \/ FeedMainDone

SpecFeed == InitFeed /\ [][NextFeed]_vars

\* the other file was locally modified or untracked when the run started
OtherDirtyAtStart == git.wt.other # obs.otherAtStart

\* C11: a file outside the digest directory and README.md that is locally
\* modified or untracked when the publish step starts is not staged by it and
\* is not in the commit it creates on the current branch: that commit holds
\* the file as the branch held it before.
C11_StagesOnlyContent ==
    OtherDirtyAtStart =>
        /\ ppc \in {"f_commit", "f_push", "f_returned", "done"} =>
              git.idx.other = obs.otherAtStart
        /\ \A c \in obs.commits : c.branch = Main => c.tree.other = obs.otherAtStart

\* C12: every tree pushed to the remote github holds only README.md and the
\* files of newsitems/, never a script, whatever the git steps between the
\* orphan checkout and the commit end with.
C12_SnapshotOnlyContent ==
    \A p \in obs.pushed :
        p.remote = "github" => (p.tree.scripts = Absent /\ p.tree.other = Absent)

(***************************************************************************)
(* create_daily_news_file and save_news_item over a sequence of runs: the  *)
(* digest files on disk.  The clock counts dates and, within a date, the   *)
(* minutes in which a run starts.                                          *)
(***************************************************************************)
MaxDates == 2
MaxMinutes == 2
MaxWrites == 3

\* strftime('%Y-%m-%d') and strftime('%Y-%m-%d_%H:%M') / ('%Y-%m-%d %H:%M')
DateStr(c) == <<Run("<%Y-%m-%d>", c.date)>>
MinuteStr(c) == <<Run("<%Y-%m-%d>", c.date), Run("<%H:%M>", c.minute)>>

\* fetch_cyber_news.py lines 42-50
get_timeframe(day_of_week) == IF day_of_week = 0 THEN "72 hours" ELSE "24 hours"

\* daily_news_bot.py lines 129-137: NewsArticles/<date>.md
FeedFileName(c) == [dir |-> "NewsArticles", date |-> c.date, minute |-> 0]
\* fetch_cyber_news.py lines 82-84: newsitems/CyberNews-<date>_<minute>.md
AgentFileName(c) == [dir |-> "newsitems", date |-> c.date, minute |-> c.minute]

FileNames ==
    [dir : {"NewsArticles", "newsitems"}, date : 1..MaxDates, minute : 0..MaxMinutes]

\* fetch_cyber_news.py lines 86-90: header + content
AgentDigestText(c, day_of_week, content) ==
    Cat(Lit("# Cyber Security News - "), Cat(MinuteStr(c), Cat(NL(2),
    Cat(Lit("*Timeframe: Last "), Cat(Lit(get_timeframe(day_of_week)),
    Cat(Lit("*"), Cat(NL(2), Cat(Separator, Cat(NL(2), content)))))))))

\* open(filepath, 'w') and f.write(text): the file holds text, whatever it held
WriteFile(fs, name, text) == [fs EXCEPT ![name] = [exists |-> TRUE, text |-> text]]

LogWrite(name, text) ==
    Append(writes, [name |-> name, before |-> digests[name],
                    after |-> [exists |-> TRUE, text |-> text]])

\* daily_news_bot.py lines 116-147
create_daily_news_file(as) ==
    /\ strategy = "feed" /\ Len(writes) < MaxWrites
    /\ LET text == generate_markdown_content(as, DateStr(clock))
       IN  /\ digests' = WriteFile(digests, FeedFileName(clock), text)
           /\ writes' = LogWrite(FeedFileName(clock), text)
    /\ UNCHANGED <<weekday, clock>>
    /\ UNCHANGED <<fetchVars, renderVars, indexVars, runVars>>

\* fetch_cyber_news.py lines 78-95
save_news_item(content) ==
    /\ strategy = "agent" /\ Len(writes) < MaxWrites
    /\ LET text == AgentDigestText(clock, weekday, content)
       IN  /\ digests' = WriteFile(digests, AgentFileName(clock), text)
           /\ writes' = LogWrite(AgentFileName(clock), text)
    /\ UNCHANGED <<weekday, clock>>
    /\ UNCHANGED <<fetchVars, renderVars, indexVars, runVars>>

\* time passes between two runs: a minute, or the night
NextMinute ==
    /\ clock.minute < MaxMinutes
    /\ clock' = [clock EXCEPT !.minute = @ + 1]
    /\ UNCHANGED <<weekday, digests, writes>>
    /\ UNCHANGED <<fetchVars, renderVars, indexVars, runVars>>

NextDate ==
    /\ clock.date < MaxDates
    /\ clock' = [date |-> clock.date + 1, minute |-> 1]
    /\ weekday' = (weekday + 1) % 7
    /\ UNCHANGED <<digests, writes>>
    /\ UNCHANGED <<fetchVars, renderVars, indexVars, runVars>>

\* the article lists of a run of the feed strategy
DigestArticles ==
    { << >>,
      << [title |-> <<Run("t", 5)>>, summary |-> <<Run("x", 400)>>,
          link |-> Lit("<url>"), source |-> Lit("Security Week"),
          published |-> Lit("<%Y-%m-%d %H:%M UTC>")] >> }

\* what the agent prints
AgentOutputs == {Lit("**news**"), Lit("**other news**")}

InitDigest ==
    /\ FetchIdle /\ RenderIdle /\ RunIdle
    /\ strategy \in {"feed", "agent"}
    /\ readme = [exists |-> FALSE, text |-> << >>]
    /\ hist = << >>
    /\ weekday \in Weekdays
    /\ clock = [date |-> 1, minute |-> 1]
    /\ digests = [n \in FileNames |-> [exists |-> FALSE, text |-> << >>]]
    /\ writes = << >>

NextDigest ==
    \/ \E as \in DigestArticles : create_daily_news_file(as)
    \/ \E content \in AgentOutputs : save_news_item(content)
    \/ NextMinute
    \/ NextDate

SpecDigest == InitDigest /\ [][NextDigest]_vars

\* C13: a digest file is created once and never changed afterwards: no run
\* writes different content over a digest file that an earlier run wrote
\* (two feed runs on one date, two agent runs in one minute).
C13_WriteOnce ==
    \A i \in 1..Len(writes) :
        writes[i].before.exists => writes[i].after = writes[i].before

(***************************************************************************)
(* Claims about a run of daily_news_bot.py (checked under SpecFeed).       *)
(***************************************************************************)
\* the entries read that were published 48 hours before the run
PublishedTwoDaysAgo ==
    {i \in 1..Len(seen) : seen[i].entry.published_parsed = <<Now - 2 * Hours24>>}

\* C14: the cutoff of the filter is now minus 24 hours, and now minus 72 hours
\* when the run's day is Monday: on a Monday an item published 48 hours ago
\* is in the digest, on any other day it is not.
C14_ExtendedWindowOnMonday ==
    fpc = "returned" =>
        /\ cutoff_time = IF weekday = 0 THEN Now - 3 * Hours24 ELSE Now - Hours24
        /\ \A i \in PublishedTwoDaysAgo : PositionsOf(i) # {} <=> weekday = 0

\* the entries read from feeds that did not fail, dated within the window
InWindowOfGoodFeeds ==
    {i \in 1..Len(seen) :
        /\ seen[i].source \notin failed
        /\ HasTimestamp(seen[i].entry)
        /\ TimestampOf(seen[i].entry) >= cutoff_time}

\* C15: whichever feeds raise in fetch or parse, fetch_articles_from_feeds
\* goes through the remaining feeds in order and returns every in-window item
\* of every feed that did not fail; the run then writes the digest and
\* updates README.md (unless writing the digest file itself raises) and ends
\* with status 0.
C15_PartialFailureTolerated ==
    /\ fpc = "returned" =>
          /\ feedIdx = NumFeeds + 1
          /\ failed \subseteq 1..NumFeeds
          /\ \A i, j \in 1..Len(seen) : i < j => seen[i].source <= seen[j].source
          /\ \A i \in InWindowOfGoodFeeds : Cardinality(PositionsOf(i)) = 1
    /\ (ppc = "done" /\ obs.msg # "write raised") =>
          /\ fpc = "returned"
          /\ obs.digestWritten
          /\ obs.readmeWrote
          /\ Contains(readme.text, LinkText("feed", 1))
          /\ obs.exit = "0"

\* a finished run in which the first feed gave an in-window item and the
\* second feed raised after an entry of it was read
C15_Witness ==
    /\ ppc = "done" /\ obs.exit = "0" /\ obs.digestWritten
    /\ failed = {2}
    /\ \E i \in InWindowOfGoodFeeds : seen[i].source = 1
    /\ \E i \in 1..Len(seen) : seen[i].source = 2

\* C16: when git_commit_and_push returns after the GitHub block was entered,
\* whatever its steps ended with, HEAD is on the branch that was current at
\* entry, that branch points at the commit it pointed at then, and the branch
\* github-publish does not exist.
C16_RepositoryRestored ==
    (ppc \in {"returned", "done"} /\ git.cur # "unset") =>
        /\ git.head = git.cur
        /\ git.tips[git.cur] = obs.atEntry
        /\ GithubBranch \notin git.branches

=============================================================================
